---------------------------- MODULE Spec2Model ----------------------------
(***************************************************************************)
(* A model of Photometry_Project_WCS.py: the frame combiner                *)
(* (load_and_combine), the dark/flat calibration arithmetic, the           *)
(* Astrometry.net client (login, upload, status poll loop, result fetch),  *)
(* source detection and aperture photometry, and the SWarp stacking cell.  *)
(*                                                                         *)
(* Numbers.  Pixel data are IEEE doubles in the program.  Finite values    *)
(* are modelled as exact rationals <<p, q>> (q > 0, lowest terms); the     *)
(* results of the two divisions of the calibration step are modelled as    *)
(* sign-magnitude values [s, n, d] so that division by zero produces what  *)
(* numpy produces (+inf, -inf, nan, signed zero).  Rounding of the         *)
(* quotients to 53 bits is not modelled.                                   *)
(***************************************************************************)
EXTENDS Integers, Sequences, FiniteSets, TLC

VARIABLES
    \* ---- load_and_combine called as a function (CombineSpec) ----
    file_list,                 \* the images read from the paths of file_list
    combine_method,            \* 'average' or 'median'
    dark_frame,                \* the reference frame, or NoFrame for None
    combined_data,             \* the returned master frame
    cpc,                       \* "call" before the call, "returned" after it
    \* ---- the script (Spec) ----
    pc,                        \* the statement the script is about to run
    error,                     \* the exception that ended the script
    session_key,
    combined_dark,
    combined_flat,
    target_data,
    combined_flat_normalized,
    target_minus_dark,
    corrected_image,
    submission_id,
    result,                    \* the last JSON payload of the status poll
    job_id,
    wcs_result,
    stars,
    phot_table,
    printed,                   \* what the script has printed
    swarp_returncode,
    stacked_image_data

combineVars == <<file_list, combine_method, dark_frame, combined_data, cpc>>

imageVars == <<combined_dark, combined_flat, target_data,
               combined_flat_normalized, target_minus_dark, corrected_image>>

netVars == <<session_key, submission_id, result, job_id, wcs_result>>

photVars == <<stars, phot_table>>

stackVars == <<printed, swarp_returncode, stacked_image_data>>

scriptVars == <<pc, error, imageVars, netVars, photVars, stackVars>>

vars == <<combineVars, scriptVars>>

----------------------------------------------------------------------------
(* Bounds of the model *)

\* pixels per image (images are flattened: every operation is element-wise
\* or a reduction over all pixels)
Npix == 2

\* longest file_list handed to load_and_combine in CombineSpec
MaxImages == 3

\* number of paths in flat_field_paths and in dark_frame_paths
NumCalibrationFiles == 2

Pixels == 1 .. Npix

----------------------------------------------------------------------------
(* Exact rationals <<p, q>> for finite pixel values *)

Abs(x) == IF x < 0 THEN -x ELSE x

RECURSIVE Gcd(_, _)
Gcd(a, b) == IF b = 0 THEN a ELSE Gcd(b, a % b)

\* p/q in lowest terms, q > 0
Rat(p, q) == LET g == Gcd(Abs(p), q) IN <<p \div g, q \div g>>

FromInt(v) == <<v, 1>>

RAdd(a, b) == Rat(a[1] * b[2] + b[1] * a[2], a[2] * b[2])

RSub(a, b) == Rat(a[1] * b[2] - b[1] * a[2], a[2] * b[2])

RDivInt(a, n) == Rat(a[1], a[2] * n)

RLt(a, b) == a[1] * b[2] < b[1] * a[2]

RLeq(a, b) == a[1] * b[2] <= b[1] * a[2]

----------------------------------------------------------------------------
(* Doubles as sign-magnitude values: s in {1, -1}, magnitude n/d.          *)
(* d = 0, n > 0 is an infinity; n = 0, d > 0 a (signed) zero; n = d = 0    *)
(* is nan.                                                                 *)

NaN == [s |-> 1, n |-> 0, d |-> 0]

FromRat(r) == [s |-> IF r[1] < 0 THEN -1 ELSE 1, n |-> Abs(r[1]), d |-> r[2]]

IsNaN(x) == x.n = 0 /\ x.d = 0

IsInf(x) == x.n > 0 /\ x.d = 0

IsZero(x) == x.n = 0 /\ x.d > 0

IsFinite(x) == x.d > 0

\* numpy's true division of doubles: x / 0 is an infinity carrying the sign
\* of x and of the zero, 0 / 0 and inf / inf are nan, nan propagates
FDiv(x, y) ==
    LET n == x.n * y.d
        d == x.d * y.n
        g == Gcd(n, d)
    IN  IF n = 0 /\ d = 0 THEN NaN
        ELSE [s |-> x.s * y.s, n |-> n \div g, d |-> d \div g]

----------------------------------------------------------------------------
(* Images *)

\* dark_frame = None
NoFrame == <<>>

\* the values of pixel i across the stack of images
PixelStack(ccd_list, i) == [k \in 1 .. Len(ccd_list) |-> ccd_list[k][i]]

RECURSIVE SumSeq(_)
SumSeq(s) == IF s = <<>> THEN FromInt(0) ELSE RAdd(Head(s), SumSeq(Tail(s)))

\* the median of a sequence of finite values as numpy computes it: sort,
\* take the middle value, or the mean of the two middle values
Median(values) ==
    LET sorted == SortSeq(values, RLt)
        n == Len(values)
    IN  IF n % 2 = 1 THEN sorted[(n + 1) \div 2]
        ELSE RDivInt(RAdd(sorted[n \div 2], sorted[n \div 2 + 1]), 2)

Mean(values) == RDivInt(SumSeq(values), Len(values))

\* ccd.subtract(dark_frame, handle_meta = 'first_found')
Subtract(ccd, dark) == [i \in DOMAIN ccd |-> RSub(ccd[i], dark[i])]

\* Combiner(ccd_list).average_combine()
average_combine(ccd_list) ==
    [i \in DOMAIN ccd_list[1] |-> Mean(PixelStack(ccd_list, i))]

\* a median that takes the middle image of the list as it comes, unsorted
median_combine_unsorted(ccd_list) ==
    [i \in DOMAIN ccd_list[1] |->
        PixelStack(ccd_list, i)[(Len(ccd_list) + 1) \div 2]]

\* Combiner(ccd_list).median_combine()
median_combine(ccd_list) ==
    [i \in DOMAIN ccd_list[1] |-> Median(PixelStack(ccd_list, i))]

\* a loop that appends each image as read and drops the subtraction
ReadAll_no_subtract(files, dark) == files

\* the loop of load_and_combine: read each file, subtract the dark frame when
\* one is given, append
RECURSIVE ReadAll(_, _)
ReadAll(files, dark) ==
    IF files = <<>> THEN <<>>
    ELSE LET ccd == Head(files)
         IN  <<IF dark # NoFrame THEN Subtract(ccd, dark) ELSE ccd>>
             \o ReadAll(Tail(files), dark)

load_and_combine(files, method, dark) ==
    LET ccd_list == ReadAll(files, dark)
    IN  IF method = "average" THEN average_combine(ccd_list)
        ELSE median_combine(ccd_list)


----------------------------------------------------------------------------
(* load_and_combine called as a function: CombineSpec *)

Methods == {"average", "median"}

\* raw ADU counts of the images on disk
CombinePixelValues == {98, 102}

\* pixel levels of the reference frame handed in as dark_frame
DarkLevels == {<<5, 2>>, <<100, 1>>}

\* CCDData.read(file, unit = 'adu'): integer counts as doubles
ReadImage(counts) == [i \in DOMAIN counts |-> FromInt(counts[i])]

ImagesOver(values) == {ReadImage(c) : c \in [Pixels -> values]}

FileLists ==
    UNION {[1 .. n -> ImagesOver(CombinePixelValues)] : n \in 1 .. MaxImages}

\* the script has not started
ScriptIdle ==
    /\ pc = "idle"
    /\ error = "none"
    /\ session_key = "unset"
    /\ combined_dark = NoFrame
    /\ combined_flat = NoFrame
    /\ target_data = NoFrame
    /\ combined_flat_normalized = NoFrame
    /\ target_minus_dark = NoFrame
    /\ corrected_image = NoFrame
    /\ submission_id = "unset"
    /\ result = [bound |-> FALSE, has_jobs |-> FALSE, jobs |-> <<>>,
                 has_status |-> FALSE, status |-> ""]
    /\ job_id = "unset"
    /\ wcs_result = [bound |-> FALSE, has_calibration |-> FALSE,
                     calibration |-> {}]
    /\ stars = [value |-> "unset", rows |-> {}]
    /\ phot_table = <<>>
    /\ printed = {}
    /\ swarp_returncode = "unset"
    /\ stacked_image_data = "unset"

CombineInit ==
    /\ file_list \in FileLists
    /\ combine_method \in Methods
    /\ dark_frame \in {NoFrame} \cup [Pixels -> DarkLevels]
    /\ combined_data = NoFrame
    /\ cpc = "call"
    /\ ScriptIdle

LoadAndCombine ==
    /\ cpc = "call"
    /\ combined_data' = load_and_combine(file_list, combine_method, dark_frame)
    /\ cpc' = "returned"
    /\ UNCHANGED <<file_list, combine_method, dark_frame, scriptVars>>

CombineNext == LoadAndCombine

CombineSpec == CombineInit /\ [][CombineNext]_vars

----------------------------------------------------------------------------
(* The script, statement by statement: Spec *)

\* raw ADU counts in the dark, flat and target files
DarkFileValues == {0, 10}

FlatFileValues == {5, 15}

TargetValues == {10, 50}

CalibrationFileLists(values) ==
    [1 .. NumCalibrationFiles -> ImagesOver(values)]

\* an exception leaves the script
Raise(exception) ==
    /\ pc' = "error"
    /\ error' = exception

\* lines 109-111 with the flat divided as it is, not normalized first
Calibrated_unnormalized(raw, dark, flat) ==
    LET minus_dark == [i \in DOMAIN raw |-> RSub(raw[i], dark[i])]
    IN  [combined_flat_normalized |-> [i \in DOMAIN flat |-> FromRat(flat[i])],
         target_minus_dark |-> minus_dark,
         corrected_image |->
            [i \in DOMAIN raw |-> FDiv(FromRat(minus_dark[i]), FromRat(flat[i]))]]

\* lines 109-111: normalize the flat by its median, subtract the dark from
\* the target, divide by the normalized flat
Calibrated(raw, dark, flat) ==
    LET median_flat == FromRat(Median(flat))
        normalized == [i \in DOMAIN flat |-> FDiv(FromRat(flat[i]), median_flat)]
        minus_dark == [i \in DOMAIN raw |-> RSub(raw[i], dark[i])]
    IN  [combined_flat_normalized |-> normalized,
         target_minus_dark |-> minus_dark,
         corrected_image |->
            [i \in DOMAIN raw |-> FDiv(FromRat(minus_dark[i]), normalized[i])]]

\* HTTP responses of login and upload: the status, and whether the JSON
\* object holds the key the function reads
KeyedResponses == [ok : BOOLEAN, has_key : BOOLEAN]

\* JSON objects the submission status endpoint can answer with: 'jobs'
\* absent, empty, holding null, or holding a job id; 'status' absent,
\* "failure" or another word
PollPayloads ==
    {[bound |-> TRUE, has_jobs |-> j[1], jobs |-> j[2],
      has_status |-> st[1], status |-> st[2]] :
        j \in {<<FALSE, <<>>>>, <<TRUE, <<>>>>, <<TRUE, <<"None">>>>,
               <<TRUE, <<"7">>>>},
        st \in {<<FALSE, "">>, <<TRUE, "failure">>, <<TRUE, "processing">>}}

CalibrationFields == {"ra", "dec", "pixscale"}

\* JSON objects the job info endpoint can answer with: the keys found under
\* 'calibration', or no 'calibration' at all
InfoPayloads ==
    {[bound |-> TRUE, has_calibration |-> c[1], calibration |-> c[2]] :
        c \in {<<FALSE, {}>>, <<TRUE, {"ra", "dec"}>>,
               <<TRUE, CalibrationFields>>}}

Init ==
    /\ file_list = <<>>
    /\ combine_method = "average"
    /\ dark_frame = NoFrame
    /\ combined_data = NoFrame
    /\ cpc = "idle"
    /\ pc = "login"
    /\ error = "none"
    /\ session_key = "unset"
    /\ combined_dark = NoFrame
    /\ combined_flat = NoFrame
    /\ target_data = NoFrame
    /\ combined_flat_normalized = NoFrame
    /\ target_minus_dark = NoFrame
    /\ corrected_image = NoFrame
    /\ submission_id = "unset"
    /\ result = [bound |-> FALSE, has_jobs |-> FALSE, jobs |-> <<>>,
                 has_status |-> FALSE, status |-> ""]
    /\ job_id = "unset"
    /\ wcs_result = [bound |-> FALSE, has_calibration |-> FALSE,
                     calibration |-> {}]
    /\ stars = [value |-> "unset", rows |-> {}]
    /\ phot_table = <<>>
    /\ printed = {}
    /\ swarp_returncode = "unset"
    /\ stacked_image_data = "unset"

\* line 93: session_key = astrometry_login(api_key)
Login ==
    /\ pc = "login"
    /\ \E response \in KeyedResponses :
          IF ~response.ok
          THEN Raise("HTTPError") /\ UNCHANGED session_key
          ELSE IF ~response.has_key
          THEN Raise("Exception") /\ UNCHANGED session_key
          ELSE /\ session_key' = "session"
               /\ pc' = "load_darks"
               /\ UNCHANGED error
    /\ UNCHANGED <<combineVars, imageVars, submission_id, result, job_id,
                   wcs_result, photVars, stackVars>>

\* line 101: combined_dark = CCDData(load_and_combine(dark_frame_paths, 'median'))
LoadDarks ==
    /\ pc = "load_darks"
    /\ \E files \in CalibrationFileLists(DarkFileValues) :
          combined_dark' = load_and_combine(files, "median", NoFrame)
    /\ pc' = "load_flats"
    /\ UNCHANGED <<combineVars, error, combined_flat, target_data,
                   combined_flat_normalized, target_minus_dark,
                   corrected_image, netVars, photVars, stackVars>>

\* line 102: combined_flat = load_and_combine(flat_field_paths, 'median',
\* dark_frame = combined_dark)
LoadFlats ==
    /\ pc = "load_flats"
    /\ \E files \in CalibrationFileLists(FlatFileValues) :
          combined_flat' = load_and_combine(files, "median", combined_dark)
    /\ pc' = "open_target"
    /\ UNCHANGED <<combineVars, error, combined_dark, target_data,
                   combined_flat_normalized, target_minus_dark,
                   corrected_image, netVars, photVars, stackVars>>

\* lines 105-106: target_data = target_fits[0].data.astype(float)
OpenTarget ==
    /\ pc = "open_target"
    /\ target_data' \in ImagesOver(TargetValues)
    /\ pc' = "calibrate"
    /\ UNCHANGED <<combineVars, error, combined_dark, combined_flat,
                   combined_flat_normalized, target_minus_dark,
                   corrected_image, netVars, photVars, stackVars>>

\* lines 109-111
Calibrate ==
    /\ pc = "calibrate"
    /\ LET c == Calibrated(target_data, combined_dark, combined_flat)
       IN  /\ combined_flat_normalized' = c.combined_flat_normalized
           /\ target_minus_dark' = c.target_minus_dark
           /\ corrected_image' = c.corrected_image
    /\ pc' = "submit"
    /\ UNCHANGED <<combineVars, error, combined_dark, combined_flat,
                   target_data, netVars, photVars, stackVars>>

\* lines 114-116: write the FITS file, submission_id = submit_fits_file(...)
Submit ==
    /\ pc = "submit"
    /\ \E response \in KeyedResponses :
          IF ~response.ok
          THEN Raise("HTTPError") /\ UNCHANGED submission_id
          ELSE IF ~response.has_key
          THEN Raise("Exception") /\ UNCHANGED submission_id
          ELSE /\ submission_id' = "subid"
               /\ pc' = "poll"
               /\ UNCHANGED error
    /\ UNCHANGED <<combineVars, imageVars, session_key, result, job_id,
                   wcs_result, photVars, stackVars>>

\* result.get('jobs', []) is truthy: a list that is not empty
JobsTruthy(payload) == payload.has_jobs /\ Len(payload.jobs) > 0

\* 'status' in result and result['status'] == 'failure'
DeclaredFailure(payload) == payload.has_status /\ payload.status = "failure"

\* line 117, one turn of the loop of check_submission_status up to the sleep
\* (lines 75-81)
Poll ==
    /\ pc = "poll"
    /\ \E ok \in BOOLEAN, payload \in PollPayloads :
          IF ~ok
          THEN Raise("HTTPError") /\ UNCHANGED <<result, job_id>>
          ELSE /\ result' = payload
               /\ IF JobsTruthy(payload)
                  THEN /\ job_id' = payload.jobs[1]
                       /\ pc' = "retrieve"
                       /\ UNCHANGED error
                  ELSE IF DeclaredFailure(payload)
                  THEN Raise("Exception") /\ UNCHANGED job_id
                  ELSE /\ pc' = "sleep"
                       /\ UNCHANGED <<error, job_id>>
    /\ UNCHANGED <<combineVars, imageVars, session_key, submission_id,
                   wcs_result, photVars, stackVars>>

\* line 82: time.sleep(30), then the loop turns again
Sleep ==
    /\ pc = "sleep"
    /\ pc' = "poll"
    /\ UNCHANGED <<combineVars, error, imageVars, netVars, photVars,
                   stackVars>>

\* line 118: wcs_result = retrieve_results(job_id)
Retrieve ==
    /\ pc = "retrieve"
    /\ \E ok \in BOOLEAN, payload \in InfoPayloads :
          IF ~ok
          THEN Raise("HTTPError") /\ UNCHANGED wcs_result
          ELSE /\ wcs_result' = payload
               /\ pc' = "wcs"
               /\ UNCHANGED error
    /\ UNCHANGED <<combineVars, imageVars, session_key, submission_id,
                   result, job_id, photVars, stackVars>>

\* lines 121-124: the WCS from wcs_result['calibration']['ra'], ['dec'],
\* ['pixscale']
BuildWCS ==
    /\ pc = "wcs"
    /\ IF wcs_result.has_calibration
          /\ CalibrationFields \subseteq wcs_result.calibration
       THEN pc' = "daofind" /\ UNCHANGED error
       ELSE Raise("KeyError")
    /\ UNCHANGED <<combineVars, imageVars, netVars, photVars, stackVars>>

\* lines 128-129: stars = daofind(corrected_image).  Which pixels
\* DAOStarFinder takes for stars is photutils' matter: any set of positions.
\* When it finds none it returns None, not an empty table.
DaoFind ==
    /\ pc = "daofind"
    /\ \E found \in SUBSET Pixels :
          stars' = [value |-> IF found = {} THEN "None" ELSE "table",
                    rows |-> found]
    /\ pc' = "photometry"
    /\ UNCHANGED <<combineVars, error, imageVars, netVars, phot_table,
                   stackVars>>

RECURSIVE RowsOf(_)
RowsOf(positions) ==
    IF positions = {} THEN <<>>
    ELSE LET x == CHOOSE p \in positions : \A q \in positions : p <= q
         IN  <<[xcenter |-> x, has_sky |-> FALSE]>> \o RowsOf(positions \ {x})

\* lines 133-135: positions from stars['xcentroid'], stars['ycentroid'],
\* one aperture sum per position
Photometry ==
    /\ pc = "photometry"
    /\ IF stars.value = "None"
       THEN Raise("TypeError") /\ UNCHANGED phot_table
       ELSE /\ phot_table' = RowsOf(stars.rows)
            /\ pc' = "project"
            /\ UNCHANGED error
    /\ UNCHANGED <<combineVars, imageVars, netVars, stars, stackVars>>

\* lines 138-142: ra_deg and dec_deg of every row
Project ==
    /\ pc = "project"
    /\ phot_table' = [k \in DOMAIN phot_table |->
                         [phot_table[k] EXCEPT !.has_sky = TRUE]]
    /\ pc' = "plot"
    /\ UNCHANGED <<combineVars, error, imageVars, netVars, stars, stackVars>>

\* lines 146-164: the plot, closing the file, showing the table
Plot ==
    /\ pc = "plot"
    /\ pc' = "create_input_list"
    /\ UNCHANGED <<combineVars, error, imageVars, netVars, photVars,
                   stackVars>>

\* line 218: input_list_filename = create_input_list(fits_files)
CreateInputList ==
    /\ pc = "create_input_list"
    /\ pc' = "run_swarp"
    /\ UNCHANGED <<combineVars, error, imageVars, netVars, photVars,
                   stackVars>>

\* line 221: run_swarp(input_list_filename, config_file).  A non-zero exit
\* is CalledProcessError, caught and printed, and run_swarp returns as it
\* does after a zero exit; a swarp that cannot be started is not caught.
RunSwarp ==
    /\ pc = "run_swarp"
    /\ \E outcome \in {"0", "1", "not started"} :
          IF outcome = "not started"
          THEN Raise("FileNotFoundError")
               /\ UNCHANGED <<swarp_returncode, printed>>
          ELSE /\ swarp_returncode' = outcome
               /\ printed' = printed \cup
                     {IF outcome = "0" THEN "SWarp completed successfully."
                      ELSE "An error occurred in SWarp"}
               /\ pc' = "getdata"
               /\ UNCHANGED error
    /\ UNCHANGED <<combineVars, imageVars, netVars, photVars,
                   stacked_image_data>>

\* lines 224-225: stacked_image_data = fits.getdata("coadd.fits").  After a
\* failed run the file is an earlier run's, or is not there.
GetData ==
    /\ pc = "getdata"
    /\ \E file_exists \in BOOLEAN :
          IF file_exists \/ swarp_returncode = "0"
          THEN /\ stacked_image_data' = "coadd"
               /\ pc' = "show_stack"
               /\ UNCHANGED error
          ELSE Raise("FileNotFoundError") /\ UNCHANGED stacked_image_data
    /\ UNCHANGED <<combineVars, imageVars, netVars, photVars, printed,
                   swarp_returncode>>

\* lines 226-230: the stacked image is displayed
ShowStack ==
    /\ pc = "show_stack"
    /\ pc' = "done"
    /\ UNCHANGED <<combineVars, error, imageVars, netVars, photVars,
                   stackVars>>

Next ==
    \/ Login
    \/ LoadDarks
    \/ LoadFlats
    \/ OpenTarget
    \/ Calibrate
    \/ Submit
    \/ Poll
    \/ Sleep
    \/ Retrieve
    \/ BuildWCS
    \/ DaoFind
    \/ Photometry
    \/ Project
    \/ Plot
    \/ CreateInputList
    \/ RunSwarp
    \/ GetData
    \/ ShowStack

Spec == Init /\ [][Next]_vars

----------------------------------------------------------------------------
(* check_submission_status called as a function: PollSpec *)

SessionKeys == {"session", "another session"}

SubmissionIds == {"subid", "another subid", "a third subid"}

\* the call check_submission_status(session_key, subid) is about to start
PollInit ==
    /\ file_list = <<>>
    /\ combine_method = "average"
    /\ dark_frame = NoFrame
    /\ combined_data = NoFrame
    /\ cpc = "idle"
    /\ pc = "poll"
    /\ error = "none"
    /\ session_key \in SessionKeys
    /\ combined_dark = NoFrame
    /\ combined_flat = NoFrame
    /\ target_data = NoFrame
    /\ combined_flat_normalized = NoFrame
    /\ target_minus_dark = NoFrame
    /\ corrected_image = NoFrame
    /\ submission_id \in SubmissionIds
    /\ result = [bound |-> FALSE, has_jobs |-> FALSE, jobs |-> <<>>,
                 has_status |-> FALSE, status |-> ""]
    /\ job_id = "unset"
    /\ wcs_result = [bound |-> FALSE, has_calibration |-> FALSE,
                     calibration |-> {}]
    /\ stars = [value |-> "unset", rows |-> {}]
    /\ phot_table = <<>>
    /\ printed = {}
    /\ swarp_returncode = "unset"
    /\ stacked_image_data = "unset"

PollNext == Poll \/ Sleep

PollSpec == PollInit /\ [][PollNext]_vars

\* the interpreter keeps running the loop: a turn that can be taken is taken
FairPollSpec == PollSpec /\ WF_vars(PollNext)

----------------------------------------------------------------------------
(* What a mean and a median are, stated without sorting or folding *)

RECURSIVE SumOver(_, _)
SumOver(values, S) ==
    IF S = {} THEN FromInt(0)
    ELSE LET k == CHOOSE j \in S : TRUE
         IN  RAdd(values[k], SumOver(values, S \ {k}))

\* m times the number of values is their sum
IsMeanOf(m, values) ==
    LET total == SumOver(values, DOMAIN values)
    IN  m[1] * Len(values) * total[2] = total[1] * m[2]

\* x is a value of the sequence with fewer than r values below it and at
\* least r values not above it: the r-th smallest
IsKth(x, r, values) ==
    /\ \E k \in DOMAIN values : values[k] = x
    /\ Cardinality({k \in DOMAIN values : RLt(values[k], x)}) < r
    /\ Cardinality({k \in DOMAIN values : RLeq(values[k], x)}) >= r

IsMedianOf(m, values) ==
    LET n == Len(values)
    IN  IF n % 2 = 1 THEN IsKth(m, (n + 1) \div 2, values)
        ELSE \E j, k \in DOMAIN values :
                /\ IsKth(values[j], n \div 2, values)
                /\ IsKth(values[k], n \div 2 + 1, values)
                /\ 2 * m[1] * values[j][2] * values[k][2]
                     = m[2] * (values[j][1] * values[k][2]
                               + values[k][1] * values[j][2])

\* pixel i of input k as it enters the combination
Entering(k, i) ==
    IF dark_frame = NoFrame THEN file_list[k][i]
    ELSE <<file_list[k][i][1] * dark_frame[i][2]
             - dark_frame[i][1] * file_list[k][i][2],
           file_list[k][i][2] * dark_frame[i][2]>>

EnteringStack(i) == [k \in 1 .. Len(file_list) |-> Entering(k, i)]

ExampleFlats == <<ReadImage(<<100, 100, 100>>), ReadImage(<<102, 98, 100>>)>>

\* C4: load_and_combine returns, at every pixel position, the arithmetic
\* mean ('average') or the median ('median'; the mean of the two middle
\* values for an even count) of that pixel across all inputs, each with the
\* reference frame subtracted first when one is given; [100,100,100] and
\* [102,98,100] give [101,99,100] under both methods.
C4_CombineIsMeanOrMedian ==
    /\ cpc = "returned" =>
          /\ DOMAIN combined_data = Pixels
          /\ \A i \in Pixels :
                IF combine_method = "average"
                THEN IsMeanOf(combined_data[i], EnteringStack(i))
                ELSE IsMedianOf(combined_data[i], EnteringStack(i))
    /\ \A method \in Methods :
          load_and_combine(ExampleFlats, method, NoFrame)
            = ReadImage(<<101, 99, 100>>)

\* two images that differ, a reference frame given, the median taken
C4_Witness ==
    /\ cpc = "returned"
    /\ Len(file_list) = 2
    /\ combine_method = "median"
    /\ dark_frame = <<<<5, 2>>, <<100, 1>>>>
    /\ file_list[1] = ReadImage([i \in Pixels |-> 98])
    /\ file_list[2] = ReadImage([i \in Pixels |-> 102])
    /\ combined_data[1] = <<195, 2>>
    /\ combined_data[2] = <<0, 1>>

Reorderings(n) ==
    {f \in [1 .. n -> 1 .. n] : \A a, b \in 1 .. n : a # b => f[a] # f[b]}

Permuted(list, f) == [k \in 1 .. Len(list) |-> list[f[k]]]

\* C9: any reordering of the same input images gives the same master frame,
\* for both methods, with or without a reference frame, and the master frame
\* has the shape of the inputs.
C9_PermutationInvariant ==
    cpc = "returned" =>
        /\ \A f \in Reorderings(Len(file_list)) :
              load_and_combine(Permuted(file_list, f), combine_method,
                               dark_frame) = combined_data
        /\ \A k \in 1 .. Len(file_list) :
              DOMAIN combined_data = DOMAIN file_list[k]

\* three images, not all alike, combined by median with a reference frame
C9_Witness ==
    /\ cpc = "returned"
    /\ Len(file_list) = 3
    /\ combine_method = "median"
    /\ dark_frame # NoFrame
    /\ file_list[1] # file_list[2]
    /\ file_list[2] = file_list[3]

----------------------------------------------------------------------------
(* The calibration step *)

\* the median of a frame's pixels, chosen by what a median is
MedianPixel(frame) ==
    CHOOSE m \in {frame[j] : j \in DOMAIN frame}
                 \cup {RDivInt(RAdd(frame[j], frame[k]), 2) :
                          j, k \in DOMAIN frame} :
        IsMedianOf(m, frame)

\* the double x is the fraction num / den (den # 0)
FEquals(x, num, den) == x.d > 0 /\ x.s * x.n * den = x.d * num

Sign(x) == IF x < 0 THEN -1 ELSE 1

\* C1: every pixel of the corrected image is
\* (raw - darkMaster) / (flatMaster / median(flatMaster)): the flat is divided
\* by its own median, the dark is subtracted from the raw frame, and the
\* difference is divided by the normalized flat; raw=[50], dark=[10],
\* flat=[5] gives 40.  Where a divisor is zero the quotient is the one of
\* floating-point division: a signed infinity, a zero or nan.
C1_CalibrationFormula ==
    pc = "submit" =>
       /\ \A i \in Pixels :
             LET r == target_data[i]
                 dk == combined_dark[i]
                 f == combined_flat[i]
                 m == MedianPixel(combined_flat)
                 diff == r[1] * dk[2] - dk[1] * r[2]
                 normalized == combined_flat_normalized[i]
                 corrected == corrected_image[i]
             IN  /\ target_minus_dark[i][1] * r[2] * dk[2]
                      = diff * target_minus_dark[i][2]
                 /\ (m[1] # 0 /\ f[1] # 0) =>
                       /\ FEquals(normalized, f[1] * m[2], f[2] * m[1])
                       /\ FEquals(corrected, diff * m[1] * f[2],
                                  r[2] * dk[2] * m[2] * f[1])
                 /\ (m[1] # 0 /\ f[1] = 0) =>
                       /\ IsZero(normalized)
                       /\ IF diff = 0 THEN IsNaN(corrected)
                          ELSE /\ IsInf(corrected)
                               /\ corrected.s = Sign(diff) * Sign(m[1])
                 /\ (m[1] = 0 /\ f[1] # 0) =>
                       /\ IsInf(normalized)
                       /\ IsZero(corrected)
                 /\ (m[1] = 0 /\ f[1] = 0) =>
                       /\ IsNaN(normalized)
                       /\ IsNaN(corrected)
       /\ Calibrated(ReadImage(<<50>>), ReadImage(<<10>>), ReadImage(<<5>>))
             .corrected_image = <<FromRat(FromInt(40))>>

\* raw 50, dark 10, flat 5 at pixel 1 of a flat whose median is 15/2: the
\* normalized flat is 2/3 there and the corrected pixel 60
C1_Witness ==
    /\ pc = "submit"
    /\ target_data[1] = FromInt(50)
    /\ combined_dark[1] = FromInt(10)
    /\ combined_flat[1] = FromInt(5)
    /\ MedianPixel(combined_flat) = <<15, 2>>
    /\ corrected_image[1] = FromRat(FromInt(60))

\* the pixels whose division is degenerate: the normalized flat is zero
\* there, or the flat's median is zero
Degenerate ==
    {i \in Pixels : ~IsFinite(combined_flat_normalized[i])
                    \/ IsZero(combined_flat_normalized[i])}

DegenerateDivisionWarning(count) ==
    "DegenerateDivisionWarning: " \o ToString(count)

\* C5: a zero in the normalized flat (or a flat of median zero) is never
\* silently propagated: every affected corrected pixel holds a placeholder,
\* not an infinity or a nan, and the count of affected pixels is reported.
C5_DegenerateDivisionReported ==
    (corrected_image # NoFrame /\ Degenerate # {}) =>
        /\ \A i \in Degenerate :
              ~IsInf(corrected_image[i]) /\ ~IsNaN(corrected_image[i])
        /\ DegenerateDivisionWarning(Cardinality(Degenerate)) \in printed

----------------------------------------------------------------------------
(* The Astrometry.net client *)

\* C2: a poll response whose status is "failure" makes the loop raise at
\* that poll, whatever else the response holds: no job id is returned for
\* it and nothing is requested after it.
C2_FailureRaisesAtOnce ==
    (result.bound /\ DeclaredFailure(result)) =>
        (pc = "error" /\ job_id = "unset")

\* C3: the poll loop makes a bounded number of attempts: whatever the
\* service answers, check_submission_status ends, with a job id or an error.
C3_PollLoopEnds == (pc = "poll") ~> (pc \notin {"poll", "sleep"})

\* a poll response of the expected form says something about a job or
\* declares a failure
ExpectedPollShape(payload) == payload.has_jobs \/ DeclaredFailure(payload)

\* C7: every call fails hard, at that call, on a non-success HTTP status and
\* on a payload of unexpected shape: no session key or submission id without
\* its key in the payload, no further poll after a response with neither a
\* job nor a failure status in the expected form, no result payload returned
\* without the calibration fields.
C7_HardFailureAtTheCall ==
    /\ pc = "sleep" => ExpectedPollShape(result)
    /\ wcs_result.bound =>
          /\ wcs_result.has_calibration
          /\ CalibrationFields \subseteq wcs_result.calibration

\* C10: check_submission_status returns only an actual job identifier taken
\* from the response, never a null entry of the jobs list.
C10_ReturnsAssignedJob == job_id # "unset" => job_id # "None"

----------------------------------------------------------------------------
(* Source detection *)

\* the exceptions of the stacking cell, which runs after the reduction
RaisedInStacking == error = "FileNotFoundError"

\* C6: when no source qualifies, detection yields an empty sequence and the
\* reduction that consumes it completes with zero measurement rows: nothing
\* raises.
C6_NoSourcesNoError ==
    (stars.value # "unset" /\ stars.rows = {}) =>
        /\ stars.value = "table"
        /\ pc = "error" => RaisedInStacking

----------------------------------------------------------------------------
(* The stacking cell *)

\* C8: after a non-zero exit of the coadd tool the failure is reported and
\* the stacking path aborts: the coadd output is neither read nor displayed.
C8_FailedSwarpAborts ==
    swarp_returncode = "1" =>
        /\ "An error occurred in SWarp" \in printed
        /\ stacked_image_data = "unset"
        /\ pc \notin {"show_stack", "done"}

=============================================================================
